---- MODULE Spec2Model ----
(***************************************************************************)
(* California Climate Farmer: the simulation core of src/game.js (class    *)
(* CaliforniaClimateFarmer) as a state machine.                            *)
(*                                                                         *)
(* Money is in whole dollars.  Math.random() results are written in        *)
(* hundredths (r stands for r/100).  Market prices, IEEE doubles in the    *)
(* source, are kept in thousandths and products are truncated to a         *)
(* thousandth.  Log messages are kept by kind: the interpolated numbers    *)
(* of a message are not part of the model.  Rendering (this.ui), the       *)
(* logger and farmValue are presentation only and are left out.            *)
(*                                                                         *)
(* cell.js, crops.js, technology.js, utils.js and events.js are not part   *)
(* of src/: what the core needs of them is modelled from the               *)
(* specification (sections 4.4 and 6) and marked in MODEL_MAP.json.        *)
(***************************************************************************)
EXTENDS Integers, Sequences, FiniteSets, TLC

VARIABLES day, year, season, seasonDay, balance, farmHealth, waterReserve,
          paused, overheadCostPerCell, grid,
          technologies, researchedTechs, events, pendingEvents,
          marketPrices, climate, testMode, autoTerminate, testEndYear,
          lastUpdateTime, timestamp,
          last, ambientCount, inputCount

progVars == <<day, year, season, seasonDay, balance, farmHealth, waterReserve,
              paused, overheadCostPerCell, grid,
              technologies, researchedTechs, events, pendingEvents,
              marketPrices, climate, testMode, autoTerminate, testEndYear,
              lastUpdateTime>>

vars == <<progVars, timestamp, last, ambientCount, inputCount>>

(***************************************************************************)
(* Bounds of the model.                                                    *)
(***************************************************************************)
\* ticks explored by the game-loop specification (one year is 360 ticks)
MaxTicks == 363
\* ticks explored by the specification with player input
MaxPlayTicks == 2
\* player inputs (actions and pause toggles) in one run
MaxInputs == 3
\* events the ambient generator injects in one run
MaxAmbient == 1
\* calls explored by the specification of distributeSubsidy alone
MaxSubsidyCalls == 2
\* calls explored by the specification of calculateSustainabilityScore alone
MaxScoreCalls == 1
\* frames the game loop is followed through while no tick is made
MaxSkippedFrames == 2
\* ticks explored by the test-mode specification
MaxTestTicks == 30

(***************************************************************************)
(* Program constants.                                                      *)
(***************************************************************************)
gridSize == 10
DaysPerSeason == 90
DaysPerYear == 360
MaxEvents == 20
InitialBalance == 20000
InitialWaterReserve == 60
InitialFarmHealth == 85
InitialOverheadCostPerCell == 10
\* annualInflationRate = 0.03, in hundredths
InflationRatePct == 3
DefaultTestEndYear == 50
\* updateInterval = 1000 / speed, speed being 5, in milliseconds
updateInterval == 200
\* the time from one call of gameLoop to the next, in milliseconds
FrameTime == 250

seasons == <<"Spring", "Summer", "Fall", "Winter">>

\* Outcomes of one Math.random() call, in hundredths; those of the calls
\* that size a water recovery.
Rand == {0, 99}
RecoveryRand == {0, 50}

(***************************************************************************)
(* Arithmetic.                                                             *)
(***************************************************************************)
Min(a, b) == IF a <= b THEN a ELSE b
Max(a, b) == IF a >= b THEN a ELSE b

\* Math.round(n / d) for d > 0: the nearest integer, halves towards +infinity.
Round(n, d) == LET q == n \div d
                   r == n % d
               IN  IF 2 * r >= d THEN q + 1 ELSE q

\* Math.floor(n / d) for d > 0.
Floor(n, d) == n \div d

RECURSIVE Pow(_, _)
Pow(b, e) == IF e <= 0 THEN 1 ELSE b * Pow(b, e - 1)

RECURSIVE SumSeq(_, _)
\* the sum of q[1..n]
SumSeq(q, n) == IF n = 0 THEN 0 ELSE q[n] + SumSeq(q, n - 1)

IndexOf(q, x) == CHOOSE i \in 1..Len(q) : q[i] = x

Range(q) == {q[i] : i \in 1..Len(q)}

(***************************************************************************)
(* Collaborators' data, modelled from the specification (section 6).       *)
(***************************************************************************)
\* crops.js: the crop table; its first entry is the empty crop.
crops == << [id |-> "empty", basePrice |-> 0],
            [id |-> "corn", basePrice |-> 1000] >>

NoCrop == [id |-> "none", basePrice |-> 0]

\* crops.js getCropById: the crop of that id, or nothing.
getCropById(cropId) ==
    IF \E i \in 1..Len(crops) : crops[i].id = cropId
    THEN crops[CHOOSE i \in 1..Len(crops) : crops[i].id = cropId]
    ELSE NoCrop

SoldCropIds == {crops[i].id : i \in 1..Len(crops)} \ {"empty"}

\* technology.js createTechnologyTree: soilHealth is the effect's multiplier
\* in hundredths, 0 when the technology has no such effect.
createTechnologyTree ==
    << [id |-> "drip_irrigation", cost |-> 16000, prerequisites |-> {},
        soilHealth |-> 0, researched |-> FALSE],
       [id |-> "ai_irrigation", cost |-> 3700,
        prerequisites |-> {"drip_irrigation"},
        soilHealth |-> 0, researched |-> FALSE],
       [id |-> "no_till_farming", cost |-> 19000, prerequisites |-> {},
        soilHealth |-> 110, researched |-> FALSE] >>

TechIds == {createTechnologyTree[i].id : i \in 1..Len(createTechnologyTree)}

\* cell.js: a new Cell.
NewCell == [crop |-> "empty", irrigated |-> FALSE, fertilized |-> FALSE,
            harvestReady |-> FALSE, soilHealth |-> 80,
            consecutivePlantings |-> 0, expectedYield |-> 0]

Positions == (0..(gridSize - 1)) \X (0..(gridSize - 1))

\* The plots, crop ids and technology ids the player's input names.
PlayerPlots == {<<0, 0>>}

(***************************************************************************)
(* The grid.  The cells the player's input never names are all in one      *)
(* state (nothing tells them apart), so the grid keeps them once: plots    *)
(* holds the cells of PlayerPlots, others the state of each other cell.    *)
(***************************************************************************)
OtherCells == Cardinality(Positions) - Cardinality(PlayerPlots)

\* initializeGrid: a new Cell at every position
initializeGrid == [plots |-> [p \in PlayerPlots |-> NewCell], others |-> NewCell]

RECURSIVE SumPlots(_, _)
\* the sum of perPlot[p] over the plots P
SumPlots(perPlot, P) ==
    IF P = {} THEN 0
    ELSE LET p == CHOOSE q \in P : TRUE
         IN  perPlot[p] + SumPlots(perPlot, P \ {p})

\* a sum over the cells of the grid: perPlot[p] for each plot, other for
\* each other cell
SumCells(perPlot, other) == SumPlots(perPlot, PlayerPlots) + OtherCells * other

\* the sum of every cell's soil health
totalSoilHealth(g) ==
    SumCells([p \in PlayerPlots |-> g.plots[p].soilHealth], g.others.soilHealth)

\* the positions of the grid g that hold a crop
plantedCells(g) ==
    {p \in PlayerPlots : g.plots[p].crop # "empty"}
    \cup (IF g.others.crop # "empty" THEN Positions \ PlayerPlots ELSE {})
PlayerCropIds == {"corn", "empty", "kale"}
PlayerTechIds == TechIds \cup {"warp_drive"}
\* What cell.harvest pays.
HarvestValues == {1500}

EventTypes == {"rain", "drought", "heatwave", "frost", "market", "policy",
               "technology"}

\* events.js: what the schedulers and the generators put in an event.
ScheduleDelays == {1}
ChainDurations == {2}
ChainSeverities == {7}
PolicyAmounts == {-3000, 5000}
TechnologyAmounts == {-2500}
MarketShocks == {500, 2000}
\* The types generateRandomEvent returns in the model: heatwave and frost
\* events come from the seasonal seeding only; flood is a type the core
\* does not recognize.
AmbientTypes == {"rain", "drought", "market", "policy", "technology", "flood"}
\* The days on which the model lets generateRandomEvent return an event.
AmbientDays == {2, 90, 359}

Event(type, d, duration, severity, amount, techId) ==
    [type |-> type, day |-> d, duration |-> duration, severity |-> severity,
     amount |-> amount, techId |-> techId]

scheduleDrought(d) ==
    {Event("drought", d + k, n, v, 0, "") :
        k \in ScheduleDelays, n \in ChainDurations, v \in ChainSeverities}

scheduleHeatwave(d) ==
    {Event("heatwave", d + k, n, 0, 0, "") :
        k \in ScheduleDelays, n \in ChainDurations}

scheduleFrost(d) == {Event("frost", d + k, 0, 0, 0, "") : k \in ScheduleDelays}

scheduleRain(d) == {Event("rain", d + k, 0, 0, 0, "") : k \in ScheduleDelays}

generatePolicyEvent(d) ==
    {Event("policy", d + k, 0, 0, a, "") :
        k \in ScheduleDelays, a \in PolicyAmounts}

\* events.js generateRandomEvent, when it returns an event.
generateRandomEvent(d) ==
    UNION { CASE type = "drought" -> scheduleDrought(d)
              [] type = "heatwave" -> scheduleHeatwave(d)
              [] type = "policy" -> generatePolicyEvent(d)
              [] type = "technology" ->
                   {Event(type, d + k, 0, 0, a, t) :
                       k \in ScheduleDelays, a \in TechnologyAmounts,
                       t \in {"no_till_farming"}}
              [] type = "market" ->
                   {Event(type, d + k, 0, 0, a, "") :
                       k \in ScheduleDelays, a \in MarketShocks}
              [] OTHER -> {Event(type, d + k, 0, 0, 0, "") :
                              k \in ScheduleDelays}
          : type \in AmbientTypes }

\* utils.js calculateFarmHealth(grid, waterReserve).
calculateFarmHealth(g, water) ==
    Round(7 * totalSoilHealth(g) + 3 * water * gridSize * gridSize,
          10 * gridSize * gridSize)

(***************************************************************************)
(* The program state as one record, and what an operation reports:         *)
(* arg is its input, ok its return value, emitted the log entries it       *)
(* added (oldest first), ledger the balance before and after each of its   *)
(* parts, dispatched what processPendingEvents resolved, pendingBefore     *)
(* and pendingAfter the pending events on entry to and on return from      *)
(* processPendingEvents.                                                   *)
(***************************************************************************)
State ==
    [day |-> day, year |-> year, season |-> season, seasonDay |-> seasonDay,
     balance |-> balance, farmHealth |-> farmHealth,
     waterReserve |-> waterReserve, paused |-> paused,
     overheadCostPerCell |-> overheadCostPerCell, grid |-> grid,
     technologies |-> technologies, researchedTechs |-> researchedTechs,
     events |-> events, pendingEvents |-> pendingEvents,
     marketPrices |-> marketPrices, climate |-> climate,
     testMode |-> testMode, autoTerminate |-> autoTerminate,
     testEndYear |-> testEndYear,
     arg |-> <<>>, ok |-> TRUE, emitted |-> <<>>, ledger |-> <<>>,
     dispatched |-> <<>>, pendingBefore |-> <<>>, pendingAfter |-> <<>>,
     ambient |-> 0]

\* the state s of an operation that returns false
Rejected(s) == [s EXCEPT !.ok = FALSE]

\* the state t that the part named by made of the state s
Charged(by, s, t) ==
    [t EXCEPT !.ledger = Append(t.ledger, [by |-> by, before |-> s.balance,
                                           after |-> t.balance])]

Report(op, s) ==
    [op |-> op, arg |-> s.arg, ok |-> s.ok, emitted |-> s.emitted,
     ledger |-> s.ledger, dispatched |-> s.dispatched,
     pendingBefore |-> s.pendingBefore, pendingAfter |-> s.pendingAfter]

Install(op, s) ==
    /\ day' = s.day
    /\ year' = s.year
    /\ season' = s.season
    /\ seasonDay' = s.seasonDay
    /\ balance' = s.balance
    /\ farmHealth' = s.farmHealth
    /\ waterReserve' = s.waterReserve
    /\ paused' = s.paused
    /\ overheadCostPerCell' = s.overheadCostPerCell
    /\ grid' = s.grid
    /\ technologies' = s.technologies
    /\ researchedTechs' = s.researchedTechs
    /\ events' = s.events
    /\ pendingEvents' = s.pendingEvents
    /\ marketPrices' = s.marketPrices
    /\ climate' = s.climate
    /\ testMode' = s.testMode
    /\ autoTerminate' = s.autoTerminate
    /\ testEndYear' = s.testEndYear
    /\ last' = Report(op, s)
    /\ ambientCount' = ambientCount + s.ambient

(***************************************************************************)
(* The event log.                                                          *)
(***************************************************************************)
Entry(s, message, isAlert) ==
    [date |-> <<s.season, s.year>>, message |-> message, isAlert |-> isAlert]

\* addEvent removing the newest entry (shift) instead of the oldest (pop)
addEventShift(s, message, isAlert) ==
    LET e == Entry(s, message, isAlert)
        grown == <<e>> \o s.events
    IN  [s EXCEPT !.events = IF Len(grown) > MaxEvents
                             THEN SubSeq(grown, 2, Len(grown))
                             ELSE grown,
                  !.emitted = Append(s.emitted, e)]

\* addEvent: unshift the entry, then pop the oldest one beyond 20.
addEvent(s, message, isAlert) ==
    LET e == Entry(s, message, isAlert)
        grown == <<e>> \o s.events
    IN  [s EXCEPT !.events = IF Len(grown) > MaxEvents
                             THEN SubSeq(grown, 1, Len(grown) - 1)
                             ELSE grown,
                  !.emitted = Append(s.emitted, e)]

hasTechnology(s, techId) == techId \in Range(s.researchedTechs)

\* technology.js checkTechPrerequisites.
checkTechPrerequisites(tech, researched) ==
    tech.prerequisites \subseteq Range(researched)

(***************************************************************************)
(* Daily overhead and the farm update.                                     *)
(***************************************************************************)
\* payDailyOverhead: the charge of one day.
dailyOverhead(s) == (gridSize * gridSize) * s.overheadCostPerCell

\* payDailyOverhead charging only what the balance covers
payDailyOverheadIfCovered(s) ==
    LET overhead == dailyOverhead(s)
    IN  IF s.balance >= overhead
        THEN [s EXCEPT !.balance = s.balance - overhead]
        ELSE addEvent(s, "debt", TRUE)

\* payDailyOverhead: both branches deduct; the second one logs the debt.
payDailyOverhead(s) ==
    LET overhead == dailyOverhead(s)
    IN  IF s.balance >= overhead
        THEN [s EXCEPT !.balance = s.balance - overhead]
        ELSE addEvent([s EXCEPT !.balance = s.balance - overhead],
                      "debt", TRUE)

RECURSIVE RowMajor(_)
\* the positions of S by row, then by column
RowMajor(S) ==
    IF S = {} THEN <<>>
    ELSE LET p == CHOOSE a \in S : \A b \in S :
                      a[1] < b[1] \/ (a[1] = b[1] /\ a[2] <= b[2])
         IN  <<p>> \o RowMajor(S \ {p})

RECURSIVE addEventEach(_, _, _, _)
\* addEvent once for each element of q
addEventEach(s, q, message, isAlert) ==
    IF q = <<>> THEN s
    ELSE addEventEach(addEvent(s, message, isAlert), Tail(q), message, isAlert)

\* cell.js update: a growing crop may become ready for harvest, and the
\* cell then answers 'harvest-ready'.
cellUpdate(s) ==
    LET growing == {p \in PlayerPlots :
                      s.grid.plots[p].crop # "empty"
                      /\ ~s.grid.plots[p].harvestReady}
    IN  {[ripe |-> R,
          grid |-> [s.grid EXCEPT !.plots =
                      [p \in PlayerPlots |->
                          IF p \in R
                          THEN [s.grid.plots[p] EXCEPT !.harvestReady = TRUE]
                          ELSE s.grid.plots[p]]]] : R \in SUBSET growing}

\* updateFarm: update every cell, then log each one that became ready.
updateFarm(s) ==
    {addEventEach([s EXCEPT !.grid = u.grid], RowMajor(u.ripe), "ready", FALSE)
        : u \in cellUpdate(s)}

(***************************************************************************)
(* Market prices.                                                          *)
(***************************************************************************)
\* fluctuateMarketPrices without Math.max
clampPriceNoFloor(p) == Min(2000, p)

\* fluctuateMarketPrices: Math.max(0.5, Math.min(2.0, price))
clampPrice(p) == Max(500, Min(2000, p))

\* updateMarketPrices: 0.8 + Math.random() * 0.4 for every sold crop
updateMarketPrices == [SoldCropIds -> {800 + 4 * r : r \in Rand}]

\* fluctuateMarketPrices: each sold crop's price times 0.9 + Math.random() * 0.2,
\* clamped.
fluctuateMarketPrices(s) ==
    {[s EXCEPT !.marketPrices =
          [c \in SoldCropIds |->
              clampPrice((s.marketPrices[c] * (900 + 2 * draw[c])) \div 1000)]]
        : draw \in [SoldCropIds -> Rand]}

(***************************************************************************)
(* Season change.                                                          *)
(***************************************************************************)
\* advanceSeason stepping two seasons on
nextSeasonSkipping(current) ==
    seasons[((IndexOf(seasons, current) - 1 + 2) % 4) + 1]

\* advanceSeason: seasons[(currentIndex + 1) % 4]
nextSeason(current) == seasons[((IndexOf(seasons, current) - 1 + 1) % 4) + 1]

Push(s, e) == [s EXCEPT !.pendingEvents = Append(s.pendingEvents, e)]

\* if (Math.random() < threshold) pendingEvents.push(scheduled), scheduled
\* being what the scheduler may return
seed(S, threshold, scheduled) ==
    UNION {IF r < threshold
           THEN {Push(s, e) : e \in scheduled}
           ELSE {s} : s \in S, r \in Rand}

\* the seasonal recovery without Math.min
recoverWaterUncapped(water, recovery) == water + recovery

\* Math.min(100, waterReserve + recovery)
recoverWater(water, recovery) == Min(100, water + recovery)

\* Math.floor(base + Math.random() * span) of water comes back; the message
\* is logged when always, or when more than 5 came back.
recover(S, base, span, message, always) ==
    {LET recovery == Floor(100 * base + r * span, 100)
         t == [s EXCEPT !.waterReserve = recoverWater(s.waterReserve, recovery)]
     IN  IF always \/ recovery > 5 THEN addEvent(t, message, FALSE) ELSE t
        : s \in S, r \in RecoveryRand}

\* advanceSeason seeding rain where it seeds frost
seasonEffectsWinterRain(s) ==
    CASE s.season = "Summer" ->
           seed(seed({s}, 30, scheduleDrought(s.day)), 40,
                scheduleHeatwave(s.day))
      [] s.season = "Winter" ->
           recover(seed({s}, 30, scheduleRain(s.day)), 5, 10,
                   "winterRecovery", FALSE)
      [] s.season = "Spring" ->
           recover(seed({s}, 40, scheduleRain(s.day)), 10, 15,
                   "springRecovery", TRUE)
      [] s.season = "Fall" ->
           recover(seed(seed({s}, 30, scheduleRain(s.day)), 20,
                        scheduleHeatwave(s.day)),
                   5, 10, "fallRecovery", FALSE)

\* advanceSeason: the switch on the season entered
seasonEffects(s) ==
    CASE s.season = "Summer" ->
           seed(seed({s}, 30, scheduleDrought(s.day)), 40,
                scheduleHeatwave(s.day))
      [] s.season = "Winter" ->
           recover(seed({s}, 30, scheduleFrost(s.day)), 5, 10,
                   "winterRecovery", FALSE)
      [] s.season = "Spring" ->
           recover(seed({s}, 40, scheduleRain(s.day)), 10, 15,
                   "springRecovery", TRUE)
      [] s.season = "Fall" ->
           recover(seed(seed({s}, 30, scheduleRain(s.day)), 20,
                        scheduleHeatwave(s.day)),
                   5, 10, "fallRecovery", FALSE)

advanceSeason(s) ==
    LET entered == [s EXCEPT !.season = nextSeason(s.season)]
        logged == addEvent(entered, "season", FALSE)
    IN  {IF hasTechnology(u, "greenhouse") /\ u.season \in {"Winter", "Summer"}
         THEN addEvent(u, "greenhouse", FALSE)
         ELSE u
            : u \in UNION {seasonEffects(t) : t \in fluctuateMarketPrices(logged)}}

(***************************************************************************)
(* Year change.                                                            *)
(***************************************************************************)
\* applyAnnualInflation with Math.ceil for Math.round
applyAnnualInflationCeil(s) ==
    [s EXCEPT !.overheadCostPerCell =
                  (s.overheadCostPerCell * (100 + InflationRatePct) + 99)
                      \div 100]

\* applyAnnualInflation multiplying by the rate alone
applyAnnualInflationByRate(s) ==
    [s EXCEPT !.overheadCostPerCell =
                  Round(s.overheadCostPerCell * InflationRatePct, 100)]

\* applyAnnualInflation: Math.round(overheadCostPerCell * (1 + rate))
applyAnnualInflation(s) ==
    [s EXCEPT !.overheadCostPerCell =
                  Round(s.overheadCostPerCell * (100 + InflationRatePct), 100)]

sustainableTechs ==
    <<"drip_irrigation", "soil_sensors", "no_till_farming",
      "precision_drones", "renewable_energy", "greenhouse",
      "drought_resistant", "ai_irrigation", "silvopasture">>

\* calculateSustainabilityScore: the switch on the technology
techPoints(tech) ==
    CASE tech \in {"no_till_farming", "silvopasture"} -> 20
      [] tech \in {"drip_irrigation", "renewable_energy", "precision_drones"}
           -> 15
      [] OTHER -> 10

\* calculateSustainabilityScore: the technology part
techScore(s) ==
    LET maxTechScore == Len(sustainableTechs) * 100
        held == {i \in 1..Len(sustainableTechs) :
                    hasTechnology(s, sustainableTechs[i])}
        rawTechScore ==
            SumSeq([i \in 1..Len(sustainableTechs) |->
                       IF i \in held THEN techPoints(sustainableTechs[i])
                       ELSE 0],
                   Len(sustainableTechs))
    IN  Round(rawTechScore * 100, maxTechScore)

\* calculateSustainabilityScore: Math.round(average soil health)
soilScore(s) ==
    LET cellCount == gridSize * gridSize
    IN  IF cellCount > 0 THEN Round(totalSoilHealth(s.grid), cellCount) ELSE 0

\* calculateSustainabilityScore: the crop diversity part
cropDiversityScore(s) ==
    LET planted == plantedCells(s.grid)
        totalCrops == Cardinality(planted)
        cropAt(p) == IF p \in PlayerPlots THEN s.grid.plots[p].crop
                     ELSE s.grid.others.crop
        ids == {cropAt(p) : p \in planted}
        count(c) == Cardinality({p \in planted : cropAt(p) = c})
        uniqueCrops == Cardinality(ids)
        maxPossibleCrops == Min(totalCrops, Len(crops) - 1)
        maxSingleCropCount == CHOOSE n \in {count(c) : c \in ids} :
                                  \A c \in ids : count(c) <= n
        penalty(cell) ==
            IF cell.crop # "empty" /\ cell.consecutivePlantings > 0
            THEN cell.consecutivePlantings * 2 ELSE 0
        monocropPenalty ==
            SumCells([p \in PlayerPlots |-> penalty(s.grid.plots[p])],
                     penalty(s.grid.others))
        \* rawDiversityScore - distributionPenalty - monocropPenalty / totalCrops
        \* over the denominator maxPossibleCrops * totalCrops
        num == 100 * uniqueCrops * totalCrops
               - 50 * maxSingleCropCount * maxPossibleCrops
               - monocropPenalty * maxPossibleCrops
    IN  IF totalCrops > 0
        THEN Round(Max(0, num), maxPossibleCrops * totalCrops)
        ELSE 0

calculateSustainabilityScore(s) ==
    [total |-> Round(4 * soilScore(s) + 4 * cropDiversityScore(s)
                       + 2 * techScore(s), 10),
     soilScore |-> soilScore(s),
     diversityScore |-> cropDiversityScore(s),
     techScore |-> techScore(s)]

\* distributeSubsidy comparing the top tier with > instead of >=
baseSubsidyStrict(total) ==
    IF total > 70 THEN 4000
    ELSE IF total >= 50 THEN 2000
    ELSE IF total >= 30 THEN 1000
    ELSE 0

\* distributeSubsidy: the base amount of the tier
baseSubsidy(total) ==
    IF total >= 70 THEN 4000
    ELSE IF total >= 50 THEN 2000
    ELSE IF total >= 30 THEN 1000
    ELSE 0

\* distributeSubsidy with randomFactor = 0.5 + r / 100
subsidy(s, sustainabilityScore, r) ==
    LET base == baseSubsidy(sustainabilityScore.total)
        finalSubsidy == Round(base * (50 + r), 100)
    IN  IF base > 0
        THEN addEvent([s EXCEPT !.balance = s.balance + finalSubsidy],
                      "subsidy", FALSE)
        ELSE addEvent(s, "noSubsidy", FALSE)

distributeSubsidy(s, sustainabilityScore) ==
    {subsidy(s, sustainabilityScore, r) : r \in Rand}

\* advanceYear: the milestone of every tenth year
milestone(s) ==
    IF s.year % 10 = 0
    THEN LET t == addEvent(s, "milestone", FALSE)
         IN  UNION {IF r < 70
                    THEN {addEvent(Push(t, e), "policyAnnounced", FALSE)
                             : e \in generatePolicyEvent(t.year)}
                    ELSE {t} : r \in Rand}
    ELSE {s}

advanceYear(s) ==
    LET aged == applyAnnualInflation([s EXCEPT !.year = s.year + 1])
        sustainabilityScore == calculateSustainabilityScore(aged)
        drifted == [aged EXCEPT
                       !.climate.droughtProbability = @ + 5,
                       !.climate.heatwaveProbability = @ + 5]
        greeted == addEvent(drifted, "newYear", FALSE)
    IN  UNION {milestone(Charged("distributeSubsidy", greeted, t))
                  : t \in distributeSubsidy(greeted, sustainabilityScore)}

(***************************************************************************)
(* events.js: the handlers' results, modelled from the specification       *)
(* (section 4.4).  A drought or heatwave resolution may be skipped; one    *)
(* that is not takes water and continues while its duration lasts.         *)
(***************************************************************************)
applyRainEvent(event, water) ==
    [waterReserve |-> Min(100, water + 15), message |-> "rain"]

applyDroughtEvent(event, water) ==
    {[skipped |-> TRUE, waterReserve |-> water, message |-> "drought",
      continueEvent |-> FALSE, nextDuration |-> 0, severity |-> 0],
     [skipped |-> FALSE,
      waterReserve |-> Max(0, water - 5 * event.severity),
      message |-> "drought",
      continueEvent |-> event.duration - 1 > 0,
      nextDuration |-> event.duration - 1,
      severity |-> event.severity]}

applyHeatwaveEvent(event, water) ==
    {[skipped |-> TRUE, waterReserve |-> water, message |-> "heatwave",
      continueEvent |-> FALSE, nextDuration |-> 0],
     [skipped |-> FALSE, waterReserve |-> Max(0, water - 5),
      message |-> "heatwave",
      continueEvent |-> event.duration - 1 > 0,
      nextDuration |-> event.duration - 1]}

applyFrostEvent(event) == [message |-> "frost"]

applyMarketEvent(event, prices) ==
    [marketPrices |->
        [c \in DOMAIN prices |->
            Max(500, Min(2000, (prices[c] * event.amount) \div 1000))],
     message |-> "market"]

applyPolicyEvent(event, bal) ==
    [newBalance |-> bal + event.amount, balanceChange |-> event.amount,
     message |-> "policy"]

\* applyTechnologyEvent may add to the researchedTechs array it is handed.
applyTechnologyEvent(event, bal, researched) ==
    [newBalance |-> bal + event.amount, message |-> "technology",
     researchedTechs |->
        IF event.techId # "" /\ event.techId \notin Range(researched)
        THEN Append(researched, event.techId)
        ELSE researched]

(***************************************************************************)
(* processPendingEvents.                                                   *)
(***************************************************************************)
Touched(s) ==
    <<s.balance, s.waterReserve, s.marketPrices, s.researchedTechs, s.events>>

\* what the resolution of event, taking the state s to t, is recorded as:
\* result is the handler's answer, pushed the pending events it added,
\* logged the log entries it added
Resolved(s, t, event, result) ==
    [Charged(event.type, s, t) EXCEPT !.dispatched =
        Append(s.dispatched,
               [event |-> event, result |-> result,
                pushed |-> SubSeq(t.pendingEvents, Len(s.pendingEvents) + 1,
                                  Len(t.pendingEvents)),
                logged |-> SubSeq(t.emitted, Len(s.emitted) + 1,
                                  Len(t.emitted)),
                changed |-> Touched(t) # Touched(s)])]

\* case 'drought' re-enqueueing for the current day
resolveDroughtSameDay(s, event, droughtResult) ==
    IF ~droughtResult.skipped
    THEN LET t == addEvent([s EXCEPT !.waterReserve = droughtResult.waterReserve],
                           droughtResult.message, TRUE)
         IN  IF droughtResult.continueEvent
             THEN Push(t, Event("drought", s.day, droughtResult.nextDuration,
                                droughtResult.severity, 0, ""))
             ELSE addEvent(t, "droughtEnded", FALSE)
    ELSE s

\* processPendingEvents: case 'drought'
resolveDrought(s, event, droughtResult) ==
    IF ~droughtResult.skipped
    THEN LET t == addEvent([s EXCEPT !.waterReserve = droughtResult.waterReserve],
                           droughtResult.message, TRUE)
         IN  IF droughtResult.continueEvent
             THEN Push(t, Event("drought", s.day + 1, droughtResult.nextDuration,
                                droughtResult.severity, 0, ""))
             ELSE addEvent(t, "droughtEnded", FALSE)
    ELSE s

\* processPendingEvents: case 'heatwave'
resolveHeatwave(s, event, heatwaveResult) ==
    IF ~heatwaveResult.skipped
    THEN LET t == addEvent([s EXCEPT !.waterReserve = heatwaveResult.waterReserve],
                           heatwaveResult.message, TRUE)
         IN  IF heatwaveResult.continueEvent
             THEN Push(t, Event("heatwave", s.day + 1,
                                heatwaveResult.nextDuration, 0, 0, ""))
             ELSE addEvent(t, "heatwaveEnded", FALSE)
    ELSE s

\* processPendingEvents: the switch on event.type, for one active event
resolveEvent(s, event) ==
    CASE event.type = "rain" ->
           LET rainResult == applyRainEvent(event, s.waterReserve)
           IN  {Resolved(s, addEvent([s EXCEPT !.waterReserve =
                                                   rainResult.waterReserve],
                                     rainResult.message, FALSE),
                         event, rainResult)}
      [] event.type = "drought" ->
           {Resolved(s, resolveDrought(s, event, droughtResult), event,
                     droughtResult)
               : droughtResult \in applyDroughtEvent(event, s.waterReserve)}
      [] event.type = "heatwave" ->
           {Resolved(s, resolveHeatwave(s, event, heatwaveResult), event,
                     heatwaveResult)
               : heatwaveResult \in applyHeatwaveEvent(event, s.waterReserve)}
      [] event.type = "frost" ->
           LET frostResult == applyFrostEvent(event)
           IN  {Resolved(s, addEvent(s, frostResult.message, TRUE), event,
                         frostResult)}
      [] event.type = "market" ->
           LET marketResult == applyMarketEvent(event, s.marketPrices)
           IN  {Resolved(s, addEvent([s EXCEPT !.marketPrices =
                                                   marketResult.marketPrices],
                                     marketResult.message, FALSE),
                         event, marketResult)}
      [] event.type = "policy" ->
           LET policyResult == applyPolicyEvent(event, s.balance)
           IN  {Resolved(s, addEvent([s EXCEPT !.balance =
                                                   policyResult.newBalance],
                                     policyResult.message,
                                     policyResult.balanceChange < 0),
                         event, policyResult)}
      [] event.type = "technology" ->
           LET techResult == applyTechnologyEvent(event, s.balance,
                                                  s.researchedTechs)
           IN  {Resolved(s, addEvent([s EXCEPT
                                         !.balance = techResult.newBalance,
                                         !.researchedTechs =
                                             techResult.researchedTechs],
                                     techResult.message, FALSE),
                         event, techResult)}
      [] OTHER -> {Resolved(s, s, event, [message |-> ""])}

RECURSIVE resolveAll(_, _)
\* activeEvents.forEach
resolveAll(S, activeEvents) ==
    IF activeEvents = <<>> THEN S
    ELSE resolveAll(UNION {resolveEvent(s, Head(activeEvents)) : s \in S},
                    Tail(activeEvents))

\* the last line of processPendingEvents removing only the events handled
dropHandled(pending, today) ==
    SelectSeq(pending, LAMBDA event : event.day # today
                                      \/ event.type \notin EventTypes)

\* the last line of processPendingEvents: keep the events of another day
dropTriggered(pending, today) ==
    SelectSeq(pending, LAMBDA event : event.day # today)

processPendingEvents(s) ==
    LET activeEvents ==
            SelectSeq(s.pendingEvents, LAMBDA event : event.day = s.day)
    IN  {[t EXCEPT !.pendingEvents = dropTriggered(t.pendingEvents, t.day),
                   !.pendingBefore = s.pendingEvents,
                   !.pendingAfter = dropTriggered(t.pendingEvents, t.day)]
            : t \in resolveAll({s}, activeEvents)}

(***************************************************************************)
(* The tick.                                                               *)
(***************************************************************************)
\* update: the chance of a random event.  generateRandomEvent may return
\* nothing; allowed caps the events injected in one run.
ambientEvent(s, allowed) ==
    UNION {IF r < 1 /\ allowed /\ s.day \in AmbientDays
           THEN {s} \cup
                {addEvent([Push(s, newEvent) EXCEPT !.ambient = 1], "ambient",
                          newEvent.type \in {"drought", "heatwave", "frost"})
                    : newEvent \in generateRandomEvent(s.day)}
           ELSE {s} : r \in Rand}

terminateTest(s) == [s EXCEPT !.paused = TRUE]

\* runTestUpdate looking at the year alone
runTestUpdateYearOnly(s) ==
    IF s.autoTerminate /\ s.year >= s.testEndYear
    THEN terminateTest(s)
    ELSE s

\* runTestUpdate: stop the run at the end year or when the money is gone
runTestUpdate(s) ==
    IF s.autoTerminate /\ (s.year >= s.testEndYear \/ s.balance <= 0)
    THEN terminateTest(s)
    ELSE s

\* update: if (this.seasonDay > 90) { this.seasonDay = 1; this.advanceSeason(); }
seasonChange(s) ==
    IF s.seasonDay > DaysPerSeason
    THEN advanceSeason([s EXCEPT !.seasonDay = 1])
    ELSE {s}

\* update changing the year on day 360 already
yearChangeEarly(s) ==
    IF s.day >= DaysPerYear
    THEN advanceYear([s EXCEPT !.day = 1])
    ELSE {s}

\* update: if (this.day > 360) { this.day = 1; this.advanceYear(); }
yearChange(s) ==
    IF s.day > DaysPerYear
    THEN advanceYear([s EXCEPT !.day = 1])
    ELSE {s}

\* update: this.farmHealth = calculateFarmHealth(this.grid, this.waterReserve)
updateFarmHealth(s) ==
    [s EXCEPT !.farmHealth = calculateFarmHealth(s.grid, s.waterReserve)]

\* update changing the year before the season
updateYearFirst(s, allowed) ==
    LET advanced == [s EXCEPT !.day = s.day + 1, !.seasonDay = s.seasonDay + 1]
        farmed == updateFarm(Charged("payDailyOverhead", advanced,
                                     payDailyOverhead(advanced)))
        aged == UNION {yearChange(t) : t \in farmed}
        seasoned == UNION {seasonChange(t) : t \in aged}
        resolved == UNION {processPendingEvents(t) : t \in seasoned}
        rolled == UNION {ambientEvent(updateFarmHealth(t), allowed)
                            : t \in resolved}
    IN  {IF t.testMode THEN runTestUpdate(t) ELSE t : t \in rolled}

\* update resolving the pending events before the season and year changes
updateResolvingFirst(s, allowed) ==
    LET advanced == [s EXCEPT !.day = s.day + 1, !.seasonDay = s.seasonDay + 1]
        farmed == updateFarm(Charged("payDailyOverhead", advanced,
                                     payDailyOverhead(advanced)))
        resolved == UNION {processPendingEvents(t) : t \in farmed}
        seasoned == UNION {seasonChange(t) : t \in resolved}
        aged == UNION {yearChange(t) : t \in seasoned}
        rolled == UNION {ambientEvent(updateFarmHealth(t), allowed)
                            : t \in aged}
    IN  {IF t.testMode THEN runTestUpdate(t) ELSE t : t \in rolled}

\* update: the steps of one tick in their order
update(s, allowed) ==
    LET advanced == [s EXCEPT !.day = s.day + 1, !.seasonDay = s.seasonDay + 1]
        farmed == updateFarm(Charged("payDailyOverhead", advanced,
                                     payDailyOverhead(advanced)))
        seasoned == UNION {seasonChange(t) : t \in farmed}
        aged == UNION {yearChange(t) : t \in seasoned}
        resolved == UNION {processPendingEvents(t) : t \in aged}
        rolled == UNION {ambientEvent(updateFarmHealth(t), allowed)
                            : t \in resolved}
    IN  {IF t.testMode THEN runTestUpdate(t) ELSE t : t \in rolled}

Elapsed == (year - 1) * DaysPerYear + (day - 1)

\* gameLoop running update once for every interval that has passed
TickReplaying(limit) ==
    LET now == timestamp + FrameTime
        elapsed == now - lastUpdateTime
        allowed == ambientCount < MaxAmbient
    IN  /\ ~paused /\ elapsed > updateInterval
        /\ Elapsed < limit
        /\ \E t \in IF elapsed > 2 * updateInterval
                     THEN UNION {update(u, allowed)
                                    : u \in update(State, allowed)}
                     ELSE update(State, allowed) : Install("update", t)
        /\ lastUpdateTime' = now
        /\ timestamp' = now
        /\ inputCount' = inputCount

\* gameLoop(timestamp) when it runs update: the game is not paused and more
\* than updateInterval has passed since lastUpdateTime; limit bounds the
\* ticks of a run
Tick(limit) ==
    LET now == timestamp + FrameTime
        elapsed == now - lastUpdateTime
    IN  /\ ~paused /\ elapsed > updateInterval
        /\ Elapsed < limit
        /\ \E t \in update(State, ambientCount < MaxAmbient) :
              Install("update", t)
        /\ lastUpdateTime' = now
        /\ timestamp' = now
        /\ inputCount' = inputCount

\* gameLoop(timestamp) when it skips update: the game is paused, or too
\* little time has passed
SkippedFrame ==
    LET now == timestamp + FrameTime
        elapsed == now - lastUpdateTime
    IN  /\ ~(~paused /\ elapsed > updateInterval)
        /\ elapsed <= MaxSkippedFrames * FrameTime
        /\ Install("gameLoop", State)
        /\ timestamp' = now
        /\ UNCHANGED <<lastUpdateTime, inputCount>>

GameLoop == Tick(MaxTicks)

(***************************************************************************)
(* Player actions.                                                         *)
(***************************************************************************)
\* Math.pow(1 + annualInflationRate, year - 1) as numerator and denominator
inflationNum(y) == Pow(100 + InflationRatePct, y - 1)
inflationDen(y) == Pow(100, y - 1)

\* plantCrop raising the multiplier to the power year
plantingCostNextYear(newCrop, y) ==
    Round(newCrop.basePrice * 4 * inflationNum(y + 1),
          10 * inflationDen(y + 1))

\* plantCrop: Math.round(basePrice * 0.4 * inflationMultiplier)
plantingCost(newCrop, y) ==
    Round(newCrop.basePrice * 4 * inflationNum(y), 10 * inflationDen(y))

\* irrigateCell: Math.round(200 * inflationMultiplier)
irrigationCost(y) == Round(200 * inflationNum(y), inflationDen(y))

\* fertilizeCell: Math.round(300 * inflationMultiplier)
fertilizeCost(y) == Round(300 * inflationNum(y), inflationDen(y))

\* cell.js plant, irrigate, fertilize and harvest.
cellPlant(cell, newCrop) ==
    [cell EXCEPT !.crop = newCrop.id, !.irrigated = FALSE,
                 !.fertilized = FALSE, !.harvestReady = FALSE,
                 !.expectedYield = 100]

cellIrrigate(cell) == [cell EXCEPT !.irrigated = TRUE]

cellFertilize(cell) == [cell EXCEPT !.fertilized = TRUE]

cellHarvest(cell) ==
    {[value |-> v,
      cell |-> [cell EXCEPT !.crop = "empty", !.irrigated = FALSE,
                            !.fertilized = FALSE, !.harvestReady = FALSE,
                            !.expectedYield = 0]] : v \in HarvestValues}

SetCell(s, p, cell) == [s EXCEPT !.grid.plots[p] = cell]

\* plantCrop without the check of the balance
plantCropOnCredit(s, p, cropId) ==
    LET cell == s.grid.plots[p]
        newCrop == getCropById(cropId)
        cost == plantingCost(newCrop, s.year)
    IN  IF newCrop = NoCrop \/ newCrop.id = "empty" THEN Rejected(s)
        ELSE addEvent(SetCell([s EXCEPT !.balance = s.balance - cost], p,
                              cellPlant(cell, newCrop)),
                      "planted", FALSE)

plantCrop(s, p, cropId) ==
    LET cell == s.grid.plots[p]
        newCrop == getCropById(cropId)
        cost == plantingCost(newCrop, s.year)
    IN  IF newCrop = NoCrop \/ newCrop.id = "empty" THEN Rejected(s)
        ELSE IF s.balance < cost
        THEN Rejected(addEvent(s, "cannotAffordPlant", TRUE))
        ELSE addEvent(SetCell([s EXCEPT !.balance = s.balance - cost], p,
                              cellPlant(cell, newCrop)),
                      "planted", FALSE)

\* irrigateCell taking the water from the reserve
irrigateCellDrawingWater(s, p) ==
    LET cell == s.grid.plots[p]
        cost == irrigationCost(s.year)
        watered == cellIrrigate(cell)
    IN  IF cell.crop = "empty"
        THEN Rejected(addEvent(s, "cannotIrrigateEmpty", TRUE))
        ELSE IF cell.irrigated
        THEN Rejected(addEvent(s, "alreadyIrrigated", TRUE))
        ELSE IF s.balance < cost
        THEN Rejected(addEvent(s, "cannotAffordIrrigation", TRUE))
        ELSE addEvent(SetCell([s EXCEPT !.balance = s.balance - cost,
                                        !.waterReserve =
                                            Max(0, s.waterReserve - 5)], p,
                              IF hasTechnology(s, "ai_irrigation")
                              THEN [watered EXCEPT !.expectedYield =
                                       Min(150, watered.expectedYield + 10)]
                              ELSE watered),
                      "irrigated", FALSE)

\* irrigateCell: refuse, or pay, irrigate the cell and log.
irrigateCell(s, p) ==
    LET cell == s.grid.plots[p]
        cost == irrigationCost(s.year)
        watered == cellIrrigate(cell)
    IN  IF cell.crop = "empty"
        THEN Rejected(addEvent(s, "cannotIrrigateEmpty", TRUE))
        ELSE IF cell.irrigated
        THEN Rejected(addEvent(s, "alreadyIrrigated", TRUE))
        ELSE IF s.balance < cost
        THEN Rejected(addEvent(s, "cannotAffordIrrigation", TRUE))
        ELSE addEvent(SetCell([s EXCEPT !.balance = s.balance - cost], p,
                              IF hasTechnology(s, "ai_irrigation")
                              THEN [watered EXCEPT !.expectedYield =
                                       Min(150, watered.expectedYield + 10)]
                              ELSE watered),
                      "irrigated", FALSE)

\* fertilizeCell deducting the cost before it checks the balance
fertilizeCellChargingFirst(s, p) ==
    LET cell == s.grid.plots[p]
        cost == fertilizeCost(s.year)
        charged == [s EXCEPT !.balance = s.balance - cost]
    IN  IF cell.crop = "empty"
        THEN Rejected(addEvent(s, "cannotFertilizeEmpty", TRUE))
        ELSE IF cell.fertilized
        THEN Rejected(addEvent(s, "alreadyFertilized", TRUE))
        ELSE IF s.balance < cost
        THEN Rejected(addEvent(charged, "cannotAffordFertilizer", TRUE))
        ELSE addEvent(SetCell(charged, p, cellFertilize(cell)),
                      "fertilized", FALSE)

fertilizeCell(s, p) ==
    LET cell == s.grid.plots[p]
        cost == fertilizeCost(s.year)
    IN  IF cell.crop = "empty"
        THEN Rejected(addEvent(s, "cannotFertilizeEmpty", TRUE))
        ELSE IF cell.fertilized
        THEN Rejected(addEvent(s, "alreadyFertilized", TRUE))
        ELSE IF s.balance < cost
        THEN Rejected(addEvent(s, "cannotAffordFertilizer", TRUE))
        ELSE addEvent(SetCell([s EXCEPT !.balance = s.balance - cost], p,
                              cellFertilize(cell)),
                      "fertilized", FALSE)

\* harvestCell logging an unripe crop without the alert flag
harvestCellQuietly(s, p) ==
    LET cell == s.grid.plots[p]
    IN  IF cell.crop = "empty"
        THEN {Rejected(addEvent(s, "nothingToHarvest", TRUE))}
        ELSE IF ~cell.harvestReady
        THEN {Rejected(addEvent(s, "notReady", FALSE))}
        ELSE {addEvent(SetCell([s EXCEPT !.balance = s.balance + result.value],
                               p, result.cell),
                       "harvested", FALSE)
                 : result \in cellHarvest(cell)}

harvestCell(s, p) ==
    LET cell == s.grid.plots[p]
    IN  IF cell.crop = "empty"
        THEN {Rejected(addEvent(s, "nothingToHarvest", TRUE))}
        ELSE IF ~cell.harvestReady
        THEN {Rejected(addEvent(s, "notReady", TRUE))}
        ELSE {addEvent(SetCell([s EXCEPT !.balance = s.balance + result.value],
                               p, result.cell),
                       "harvested", FALSE)
                 : result \in cellHarvest(cell)}

\* applyTechnologyEffects: a soilHealth effect multiplies every cell's soil
\* health, up to 100 (the table's multiplier keeps the product whole).
applyTechnologyEffects(s, tech) ==
    IF tech.soilHealth # 0
    THEN LET boosted(cell) ==
                 [cell EXCEPT !.soilHealth =
                     Min(100, (cell.soilHealth * tech.soilHealth) \div 100)]
         IN  [s EXCEPT !.grid =
                 [plots |-> [p \in PlayerPlots |-> boosted(s.grid.plots[p])],
                  others |-> boosted(s.grid.others)]]
    ELSE s

\* researchTechnology without the check of the prerequisites
researchTechnologyUnchecked(s, techId) ==
    IF \A i \in 1..Len(s.technologies) : s.technologies[i].id # techId
    THEN Rejected(s)
    ELSE LET i == CHOOSE j \in 1..Len(s.technologies) :
                      s.technologies[j].id = techId
             tech == s.technologies[i]
         IN  IF tech.researched THEN Rejected(s)
             ELSE IF s.balance < tech.cost
             THEN Rejected(addEvent(s, "cannotAffordResearch", TRUE))
             ELSE addEvent(
                    applyTechnologyEffects(
                      [s EXCEPT !.balance = s.balance - tech.cost,
                                !.technologies[i].researched = TRUE,
                                !.researchedTechs = Append(s.researchedTechs,
                                                           tech.id)],
                      tech),
                    "researched", FALSE)

\* researchTechnology assigning the array instead of pushing onto it
researchTechnologyReplacing(s, techId) ==
    IF \A i \in 1..Len(s.technologies) : s.technologies[i].id # techId
    THEN Rejected(s)
    ELSE LET i == CHOOSE j \in 1..Len(s.technologies) :
                      s.technologies[j].id = techId
             tech == s.technologies[i]
         IN  IF tech.researched THEN Rejected(s)
             ELSE IF ~checkTechPrerequisites(tech, s.researchedTechs)
             THEN Rejected(addEvent(s, "prerequisitesNotMet", TRUE))
             ELSE IF s.balance < tech.cost
             THEN Rejected(addEvent(s, "cannotAffordResearch", TRUE))
             ELSE addEvent(
                    applyTechnologyEffects(
                      [s EXCEPT !.balance = s.balance - tech.cost,
                                !.technologies[i].researched = TRUE,
                                !.researchedTechs = <<tech.id>>],
                      tech),
                    "researched", FALSE)

\* researchTechnology: refuse, or pay, mark, push, apply and log.
researchTechnology(s, techId) ==
    IF \A i \in 1..Len(s.technologies) : s.technologies[i].id # techId
    THEN Rejected(s)
    ELSE LET i == CHOOSE j \in 1..Len(s.technologies) :
                      s.technologies[j].id = techId
             tech == s.technologies[i]
         IN  IF tech.researched THEN Rejected(s)
             ELSE IF ~checkTechPrerequisites(tech, s.researchedTechs)
             THEN Rejected(addEvent(s, "prerequisitesNotMet", TRUE))
             ELSE IF s.balance < tech.cost
             THEN Rejected(addEvent(s, "cannotAffordResearch", TRUE))
             ELSE addEvent(
                    applyTechnologyEffects(
                      [s EXCEPT !.balance = s.balance - tech.cost,
                                !.technologies[i].researched = TRUE,
                                !.researchedTechs = Append(s.researchedTechs,
                                                           tech.id)],
                      tech),
                    "researched", FALSE)

togglePause(s) == [s EXCEPT !.paused = ~s.paused]

\* an input handler calls op with arg; s is the state op returns in
Input(op, arg, s) ==
    /\ inputCount < MaxInputs
    /\ inputCount' = inputCount + 1
    /\ UNCHANGED <<lastUpdateTime, timestamp>>
    /\ Install(op, [Charged(op, State, s) EXCEPT !.arg = arg])

PlantCrop ==
    \E p \in PlayerPlots, cropId \in PlayerCropIds :
        Input("plantCrop", <<p, cropId>>, plantCrop(State, p, cropId))

IrrigateCell ==
    \E p \in PlayerPlots :
        Input("irrigateCell", <<p>>, irrigateCell(State, p))

FertilizeCell ==
    \E p \in PlayerPlots :
        Input("fertilizeCell", <<p>>, fertilizeCell(State, p))

HarvestCell ==
    \E p \in PlayerPlots :
        \E t \in harvestCell(State, p) : Input("harvestCell", <<p>>, t)

ResearchTechnology ==
    \E techId \in PlayerTechIds :
        Input("researchTechnology", <<techId>>,
              researchTechnology(State, techId))

TogglePause == Input("togglePause", <<>>, togglePause(State))

(***************************************************************************)
(* The constructor.                                                        *)
(***************************************************************************)
NoReport ==
    [op |-> "constructor", arg |-> <<>>, ok |-> TRUE, emitted |-> <<>>,
     ledger |-> <<>>, dispatched |-> <<>>, pendingBefore |-> <<>>,
     pendingAfter |-> <<>>]

\* the game constructed with options, in year y with the array researched
\* of technologies held
Started(options, y, researched) ==
    /\ testMode = options.testMode
    /\ testEndYear = options.testEndYear
    /\ autoTerminate = options.autoTerminate
    /\ day = 1
    /\ year = y
    /\ season = "Spring"
    /\ seasonDay = 1
    /\ balance = InitialBalance
    /\ farmHealth = InitialFarmHealth
    /\ waterReserve = InitialWaterReserve
    /\ paused = FALSE
    /\ overheadCostPerCell = InitialOverheadCostPerCell
    /\ grid = initializeGrid
    /\ technologies = createTechnologyTree
    /\ researchedTechs = researched
    /\ events = <<>>
    /\ pendingEvents = <<>>
    /\ marketPrices \in updateMarketPrices
    /\ climate = [droughtProbability |-> 50, heatwaveProbability |-> 80]
    /\ last = NoReport
    /\ ambientCount = 0
    /\ inputCount = 0
    /\ lastUpdateTime = 0
    /\ timestamp = 0

DefaultOptions ==
    [testMode |-> FALSE, testEndYear |-> DefaultTestEndYear,
     autoTerminate |-> FALSE]

\* the state after construction
Constructed(options) == Started(options, 1, <<>>)

Init == Constructed(DefaultOptions)

Next == GameLoop

Spec == Init /\ [][Next]_vars

\* The game with the player's input, over its first ticks.
NextPlay ==
    \/ Tick(MaxPlayTicks)
    \/ PlantCrop
    \/ IrrigateCell
    \/ FertilizeCell
    \/ HarvestCell
    \/ ResearchTechnology

SpecPlay == Init /\ [][NextPlay]_vars

\* The player's actions on their own, no tick between them.
NextActions ==
    \/ PlantCrop
    \/ IrrigateCell
    \/ FertilizeCell
    \/ HarvestCell
    \/ ResearchTechnology

SpecActions == Init /\ [][NextActions]_vars

\* distributeSubsidy on its own: the totals it is handed
SubsidyTotals == {0, 29, 30, 49, 50, 69, 70, 72, 100}

Score(total) ==
    [total |-> total, soilScore |-> 0, diversityScore |-> 0, techScore |-> 0]

DistributeSubsidy ==
    /\ inputCount < MaxSubsidyCalls
    /\ inputCount' = inputCount + 1
    /\ UNCHANGED <<lastUpdateTime, timestamp>>
    /\ \E total \in SubsidyTotals :
          \E t \in distributeSubsidy(State, Score(total)) :
             Install("distributeSubsidy",
                     [Charged("distributeSubsidy", State, t)
                         EXCEPT !.arg = <<total>>])

NextSubsidy == DistributeSubsidy

SpecSubsidy == Init /\ [][NextSubsidy]_vars

\* calculateSustainabilityScore on its own: the arrays of researched
\* technologies it may find, each a selection of the sustainable ones
ResearchedArrays ==
    {LET Held(tech) == tech \in S IN SelectSeq(sustainableTechs, Held)
        : S \in SUBSET Range(sustainableTechs)}

InitScore == \E researched \in ResearchedArrays :
                Started(DefaultOptions, 1, researched)

\* the report's ok is the score the call returns
CalculateSustainabilityScore ==
    /\ inputCount < MaxScoreCalls
    /\ inputCount' = inputCount + 1
    /\ UNCHANGED <<lastUpdateTime, timestamp>>
    /\ Install("calculateSustainabilityScore",
               [State EXCEPT !.ok = calculateSustainabilityScore(State)])

NextScore == CalculateSustainabilityScore

SpecScore == InitScore /\ [][NextScore]_vars

\* The player's paid actions in the years CostYears.
CostYears == {1, 3}

InitCost == \E y \in CostYears : Started(DefaultOptions, y, <<>>)

NextCost ==
    \/ PlantCrop
    \/ IrrigateCell
    \/ FertilizeCell

SpecCost == InitCost /\ [][NextCost]_vars

\* The game loop in test mode: the options the game is constructed with.
TestEndYears == {1, 2, DefaultTestEndYear}

TestOptions ==
    [testMode : BOOLEAN, testEndYear : TestEndYears, autoTerminate : BOOLEAN]

InitTest == \E options \in TestOptions : Constructed(options)

NextTest == Tick(MaxTestTicks)

\* requestAnimationFrame calls gameLoop again and again
SpecTest == InitTest /\ [][NextTest]_vars /\ WF_vars(NextTest)

\* The game loop with the pause button.
NextPause ==
    \/ Tick(MaxPlayTicks)
    \/ SkippedFrame
    \/ TogglePause

SpecPause == Init /\ [][NextPause]_vars
(***************************************************************************)
(* The season and year cadence of update.                                  *)
(***************************************************************************)
SeasonCycle ==
    [Spring |-> "Summer", Summer |-> "Fall", Fall |-> "Winter",
     Winter |-> "Spring"]

\* C1: in a tick the season changes only if the incremented seasonDay
\* exceeded 90; it then becomes the next season of the cycle
\* Spring -> Summer -> Fall -> Winter -> Spring and seasonDay is reset to 1;
\* in every other tick the season is unchanged.
C1_SeasonCycle ==
    [][last'.op = "update" =>
          IF seasonDay + 1 > 90
          THEN season' = SeasonCycle[season] /\ seasonDay' = 1
          ELSE season' = season /\ seasonDay' = seasonDay + 1]_vars

\* the tick that closes Winter of year 1 has entered Spring of year 2
C1_Witness ==
    last.op = "update" /\ season = "Spring" /\ seasonDay = 1 /\ year = 2

\* C2: year grows by exactly 1 in exactly the ticks where the incremented
\* day exceeded 360, day being reset to 1 then, and never decreases; after
\* every tick day is in 1..360, seasonDay in 1..90 and year at least 1.
C2_YearAdvance ==
    /\ [](day \in 1..360 /\ seasonDay \in 1..90 /\ year >= 1)
    /\ [][last'.op = "update" =>
             IF day + 1 > 360
             THEN year' = year + 1 /\ day' = 1
             ELSE year' = year /\ day' = day + 1]_vars

\* the tick after day 360 of year 1 has opened year 2
C2_Witness == last.op = "update" /\ day = 1 /\ year = 2

(***************************************************************************)
(* processPendingEvents.                                                   *)
(***************************************************************************)
Messages(entries) == {entries[j].message : j \in DOMAIN entries}

\* C3: a drought resolution that is not skipped and continues enqueues
\* exactly one drought event for the day after the current one, with the
\* duration and severity the handler returned, and logs no 'ended' entry;
\* one that does not continue enqueues nothing and logs 'The drought has
\* ended.' exactly once, and the event it resolved is no longer pending.
C3_DroughtChain ==
    \A i \in DOMAIN last.dispatched :
        LET d == last.dispatched[i]
            ended == {j \in DOMAIN d.logged :
                         d.logged[j].message = "droughtEnded"}
        IN  (d.event.type = "drought" /\ ~d.result.skipped) =>
               IF d.result.continueEvent
               THEN /\ Len(d.pushed) = 1
                    /\ d.pushed[1].type = "drought"
                    /\ d.pushed[1].day = day + 1
                    /\ d.pushed[1].duration = d.result.nextDuration
                    /\ d.pushed[1].severity = d.result.severity
                    /\ ended = {}
                    /\ \E k \in DOMAIN last.pendingAfter :
                           last.pendingAfter[k] = d.pushed[1]
               ELSE /\ d.pushed = <<>>
                    /\ Cardinality(ended) = 1
                    /\ \A k \in DOMAIN last.pendingAfter :
                           last.pendingAfter[k] # d.event

\* the second event of a chain, enqueued by a continuing resolution, has
\* been resolved and has ended the chain
C3_Witness ==
    \E i \in DOMAIN last.dispatched :
        /\ last.dispatched[i].event.type = "drought"
        /\ last.dispatched[i].event.duration = 1
        /\ ~last.dispatched[i].result.skipped
        /\ ~last.dispatched[i].result.continueEvent
        /\ "droughtEnded" \in Messages(last.emitted)

\* C4: after processPendingEvents no pending event has the current day as
\* its trigger day, whatever its type; an event of an unrecognized type is
\* removed without a change of balance, waterReserve, marketPrices,
\* researchedTechs or the event log; the pending events of another day are
\* all still pending, unchanged and in their order.
C4_PendingSwept ==
    last.op = "update" =>
        LET kept == SelectSeq(last.pendingBefore, LAMBDA e : e.day # day)
        IN  /\ \A k \in DOMAIN last.pendingAfter :
                   last.pendingAfter[k].day # day
            /\ \A i \in DOMAIN last.dispatched :
                   last.dispatched[i].event.type \notin EventTypes =>
                       /\ ~last.dispatched[i].changed
                       /\ last.dispatched[i].pushed = <<>>
            /\ Len(kept) <= Len(last.pendingAfter)
            /\ SubSeq(last.pendingAfter, 1, Len(kept)) = kept

\* an event of an unrecognized type came due while events of the next day
\* were pending
C4_Witness ==
    /\ \E i \in DOMAIN last.dispatched :
           /\ last.dispatched[i].event.type = "flood"
           /\ \E k \in DOMAIN last.pendingBefore :
                  last.pendingBefore[k] = last.dispatched[i].event
    /\ \E k \in DOMAIN last.pendingAfter : last.pendingAfter[k].day = day + 1
(***************************************************************************)
(* The balance and the player's actions.                                   *)
(***************************************************************************)
PlayerOps == {"plantCrop", "irrigateCell", "fertilizeCell", "harvestCell",
              "researchTechnology"}

\* the parts of an operation that took the balance from >= 0 to < 0
WentIntoDebt ==
    {last.ledger[i].by : i \in {j \in DOMAIN last.ledger :
                                   /\ last.ledger[j].before >= 0
                                   /\ last.ledger[j].after < 0}}

C6_FailureFrame ==
    [][(last'.op \in PlayerOps /\ ~last'.ok) =>
          /\ balance' = balance
          /\ grid' = grid
          /\ researchedTechs' = researchedTechs
          /\ technologies' = technologies
          /\ waterReserve' = waterReserve
          /\ marketPrices' = marketPrices
          /\ pendingEvents' = pendingEvents]_vars

\* a harvest was refused on a planted cell that is not ready
C6_Witness ==
    /\ last.op = "harvestCell" /\ ~last.ok
    /\ grid.plots[last.arg[1]].crop # "empty"
    /\ ~grid.plots[last.arg[1]].harvestReady

C8_WaterRange ==
    /\ waterReserve \in 0..100
    /\ \A i \in DOMAIN last.dispatched :
           last.dispatched[i].event.type \in {"rain", "drought", "heatwave"}
               => last.dispatched[i].result.waterReserve \in 0..100

\* a seasonal recovery has filled the reserve to its cap
C8_Witness ==
    /\ waterReserve = 100
    /\ Messages(last.emitted) \cap
           {"winterRecovery", "springRecovery", "fallRecovery"} # {}

\* C9: every entry of marketPrices is in [0.5, 2.0] in every reachable
\* state: after updateMarketPrices, after every fluctuateMarketPrices and
\* after a market event's result replaced the table.
C9_PriceRange ==
    \A c \in DOMAIN marketPrices : marketPrices[c] \in 500..2000

\* a season change has fluctuated a price that stands at the floor
C9_Witness ==
    /\ "season" \in Messages(last.emitted)
    /\ \E c \in DOMAIN marketPrices : marketPrices[c] = 500

(***************************************************************************)
(* distributeSubsidy.                                                      *)
(***************************************************************************)
\* C10: distributeSubsidy takes the base amount of the tier of the total
\* (>= 70: 4000, 50..69: 2000, 30..49: 1000, below 30: 0), adds
\* round(base * factor) with factor in [0.5, 1.5] to the balance (within
\* [2000, 6000] for a total of 72), leaves the balance unchanged when the
\* base is 0, and appends exactly one notification in either case.
C10_SubsidyTiers ==
    last.op = "distributeSubsidy" =>
        LET total == last.arg[1]
            base == IF total >= 70 THEN 4000
                    ELSE IF total >= 50 THEN 2000
                    ELSE IF total >= 30 THEN 1000
                    ELSE 0
            paid == last.ledger[1].after - last.ledger[1].before
        IN  /\ balance = last.ledger[1].after
            /\ \E f \in 50..150 : 100 * paid = base * f
            /\ base = 0 => paid = 0
            /\ total = 72 => paid \in 2000..6000
            /\ Len(last.emitted) = 1
            /\ events[1] = last.emitted[1]
            /\ last.emitted[1].message =
                   IF base > 0 THEN "subsidy" ELSE "noSubsidy"

\* a total of 72 was paid 4000 * 1.49
C10_Witness ==
    /\ last.op = "distributeSubsidy" /\ last.arg = <<72>>
    /\ last.ledger[1].after - last.ledger[1].before = 5960
(***************************************************************************)
(* The event log.                                                          *)
(***************************************************************************)
\* the entries q, last one first
Reversed(q) == [i \in 1..Len(q) |-> q[Len(q) + 1 - i]]

\* C11: the event log holds at most 20 entries, the most recent first, and
\* they are the (up to) 20 entries added last: after an operation the log
\* is the entries the operation added, newest first, followed by the log
\* as it was, cut after the 20th entry.
C11_LogKeepsNewest ==
    /\ [](Len(events) <= 20)
    /\ [][LET grown == Reversed(last'.emitted) \o events
          IN  events' = SubSeq(grown, 1, IF Len(grown) < 20 THEN Len(grown)
                                         ELSE 20)]_vars

\* a tick has added entries to a log that was full long before
C11_Witness ==
    /\ Len(events) = 20
    /\ last.op = "update" /\ last.emitted # <<>>
    /\ season = "Summer" /\ seasonDay = 1
(***************************************************************************)
(* The daily overhead.                                                     *)
(***************************************************************************)
\* the number of entries of q with the message m
CountOf(q, m) == Cardinality({i \in 1..Len(q) : q[i].message = m})

\* C12: every tick first deducts gridSize x gridSize x overheadCostPerCell
\* from the balance, covered or not, before any cell is updated (the debt
\* alert precedes every entry of the farm update), and the tick logs one
\* debt alert exactly when the balance was smaller than the overhead.
C12_OverheadAlwaysCharged ==
    [][last'.op = "update" =>
         LET overhead == gridSize * gridSize * overheadCostPerCell
             entries == last'.emitted
         IN  /\ last'.ledger # <<>>
             /\ last'.ledger[1] = [by |-> "payDailyOverhead",
                                   before |-> balance,
                                   after |-> balance - overhead]
             /\ IF balance < overhead
                THEN /\ CountOf(entries, "debt") = 1
                     /\ entries[1].message = "debt" /\ entries[1].isAlert
                ELSE CountOf(entries, "debt") = 0]_vars

\* a tick has charged a balance that did not cover the overhead, and a
\* crop became ready in the same tick
C12_Witness ==
    /\ last.op = "update"
    /\ last.ledger[1].before >= 0
    /\ last.ledger[1].after < 0
    /\ Len(last.emitted) >= 2
    /\ last.emitted[1].message = "debt"
    /\ last.emitted[2].message = "ready"
(***************************************************************************)
(* Research.                                                               *)
(***************************************************************************)
\* C13: researchedTechs is append-only over ticks, event resolutions and
\* player actions: every step leaves the ids it held in place and in order,
\* its size never decreases, and no technology's researched flag goes from
\* true to false.
C13_ResearchAppendOnly ==
    [][/\ Len(researchedTechs') >= Len(researchedTechs)
       /\ SubSeq(researchedTechs', 1, Len(researchedTechs)) = researchedTechs
       /\ \A i \in 1..Len(technologies) :
              technologies[i].researched => technologies'[i].researched]_vars

\* the player has researched one technology and a technology event has
\* added a second one
C13_Witness ==
    /\ researchedTechs = <<"drip_irrigation", "no_till_farming">>
    /\ last.op = "update"
    /\ \E i \in 1..Len(last.dispatched) :
          last.dispatched[i].event.type = "technology"
(***************************************************************************)
(* Inflation of the overhead.                                              *)
(***************************************************************************)
\* C14: overheadCostPerCell never decreases; it is rewritten only by the
\* tick that crosses a year boundary, to the old value times 1.03 rounded
\* to the nearest integer, and every other step leaves it as it was.
C14_OverheadInflation ==
    [][/\ overheadCostPerCell' >= overheadCostPerCell
       /\ IF last'.op = "update" /\ day = 360
          THEN overheadCostPerCell' = (overheadCostPerCell * 103 + 50) \div 100
          ELSE overheadCostPerCell' = overheadCostPerCell]_vars

\* the tick into year 2 has applied the inflation
C14_Witness ==
    /\ year = 2 /\ day = 1 /\ last.op = "update"
    /\ overheadCostPerCell = (InitialOverheadCostPerCell * 103 + 50) \div 100
(***************************************************************************)
(* The technology score.                                                   *)
(***************************************************************************)
\* the points of the sustainable technologies in the array researched
PointsHeld(researched) ==
    20 * Cardinality(Range(researched)
                       \cap {"no_till_farming", "silvopasture"})
    + 15 * Cardinality(Range(researched)
                         \cap {"drip_irrigation", "renewable_energy",
                               "precision_drones"})
    + 10 * Cardinality(Range(researched)
                         \cap {"soil_sensors", "greenhouse",
                               "drought_resistant", "ai_irrigation"})

\* C15: techScore is round(100 x points of the researched sustainable
\* technologies / 135), 135 being the points of all nine (2 x 20 + 3 x 15
\* + 4 x 10); it is an integer in 0..100, and 100 when all nine are
\* researched.
C15_TechScoreNormalised ==
    last.op = "calculateSustainabilityScore" =>
        /\ last.ok.techScore
              = (2 * 100 * PointsHeld(researchedTechs) + 135) \div (2 * 135)
        /\ last.ok.techScore \in 0..100
        /\ (Len(researchedTechs) = 9 => last.ok.techScore = 100)

(***************************************************************************)
(* The costs of the player's actions.                                      *)
(***************************************************************************)
\* round(base x 1.03^(y - 1)) for the years 1 to 3, base in tenths
Inflated(tenths, y) ==
    LET num == IF y = 1 THEN 1 ELSE IF y = 2 THEN 103 ELSE 10609
        den == IF y = 1 THEN 1 ELSE IF y = 2 THEN 100 ELSE 10000
    IN  (2 * tenths * num + 10 * den) \div (20 * den)

\* C16: a successful plantCrop, irrigateCell or fertilizeCell deducts from
\* the balance exactly its cost in the current year: round(basePrice x 0.4
\* x 1.03^(year - 1)), round(200 x 1.03^(year - 1)) and round(300 x
\* 1.03^(year - 1)); planting a crop of basePrice 1000 costs 400 in year 1
\* and 424 in year 3.
C16_CostsOfTheYear ==
    LET paid == last.ledger[1].before - last.ledger[1].after
    IN  /\ last.op = "plantCrop" /\ last.ok =>
              /\ paid = Inflated(4 * getCropById(last.arg[2]).basePrice, year)
              /\ getCropById(last.arg[2]).basePrice = 1000 =>
                    paid = IF year = 1 THEN 400 ELSE 424
        /\ last.op = "irrigateCell" /\ last.ok =>
              paid = Inflated(2000, year)
        /\ last.op = "fertilizeCell" /\ last.ok =>
              paid = Inflated(3000, year)

\* in year 3 a crop of basePrice 1000 was planted for 424
C16_Witness ==
    /\ year = 3 /\ last.op = "plantCrop" /\ last.ok
    /\ getCropById(last.arg[2]).basePrice = 1000
    /\ last.ledger[1].before - last.ledger[1].after = 424
(***************************************************************************)
(* Pausing.                                                                *)
(***************************************************************************)
\* C17: while paused is true the game loop makes no tick: a call of
\* gameLoop leaves day, seasonDay, season, year, balance, waterReserve,
\* pendingEvents and the event log as they were; the time spent paused is
\* not made up for afterwards: every tick, the first one after resuming
\* included, is made while not paused and advances day by exactly 1.
C17_PausedNoTick ==
    [][/\ (paused /\ last'.op # "togglePause") =>
            /\ last'.op = "gameLoop"
            /\ UNCHANGED <<day, seasonDay, season, year, balance,
                           waterReserve, pendingEvents, events>>
       /\ last'.op = "update" => ~paused /\ day' = day + 1]_vars

\* the game was paused over two intervals and more, resumed, and the tick
\* that followed has advanced the day by one
C17_Witness ==
    /\ last.op = "update" /\ ~paused /\ inputCount = 2
    /\ day = 2
    /\ timestamp >= 3 * FrameTime
(***************************************************************************)
(* Continuations and seasonal seeding.                                     *)
(***************************************************************************)
\* C18: a continuation that a drought or heatwave resolution enqueued in
\* one tick is dispatched in the very next tick, on every day of the year,
\* day 360 included; so it is no longer pending after that tick.
C18_ContinuationNextTick ==
    [][(last.op = "update" /\ last'.op = "update") =>
          \A i \in 1..Len(last.dispatched) :
             \A j \in 1..Len(last.dispatched[i].pushed) :
                LET continuation == last.dispatched[i].pushed[j]
                IN  /\ \E k \in 1..Len(last'.dispatched) :
                          last'.dispatched[k].event = continuation
                    /\ continuation \notin Range(pendingEvents')]_vars
\* the types of the weather events a step has enqueued before it resolved
\* the pending events of the day
SeededTypes ==
    {last'.pendingBefore[i].type :
        i \in (Len(pendingEvents) + 1)..Len(last'.pendingBefore)}
    \cap {"drought", "heatwave", "frost", "rain"}

\* the season a step has entered, "none" if it has not changed the season
SeasonEntered == IF season' # season THEN season' ELSE "none"

\* C19 as stated: a tick seeds drought and heatwave only on the transition
\* into Summer, frost only on the transition into Winter, rain only on the
\* transitions into Spring and Fall.
C19_SeedingAsStated ==
    [][last'.op = "update" =>
          /\ "drought" \in SeededTypes => SeasonEntered = "Summer"
          /\ "heatwave" \in SeededTypes => SeasonEntered = "Summer"
          /\ "frost" \in SeededTypes => SeasonEntered = "Winter"
          /\ "rain" \in SeededTypes => SeasonEntered \in {"Spring", "Fall"}]_vars

\* C19: a tick seeds drought only on the transition into Summer, heatwave
\* only on the transitions into Summer and Fall, frost only on the
\* transition into Winter, rain only on the transitions into Spring and
\* Fall; a tick that does not change the season seeds none of them.
C19_SeedingBySeason ==
    [][last'.op = "update" =>
          /\ "drought" \in SeededTypes => SeasonEntered = "Summer"
          /\ "heatwave" \in SeededTypes => SeasonEntered \in {"Summer", "Fall"}
          /\ "frost" \in SeededTypes => SeasonEntered = "Winter"
          /\ "rain" \in SeededTypes => SeasonEntered \in {"Spring", "Fall"}]_vars

\* the tick into Fall has seeded a heatwave
C19_Witness ==
    /\ last.op = "update" /\ season = "Fall" /\ seasonDay = 1
    /\ \E i \in 1..Len(last.pendingBefore) :
          /\ last.pendingBefore[i].type = "heatwave"
          /\ last.pendingBefore[i].day > day
(***************************************************************************)
(* The order of the steps of a tick.                                       *)
(***************************************************************************)
\* C20: a tick resolves the pending events after its season and year
\* changes and before it recomputes farmHealth: the events it dispatches
\* are the pending ones whose day is the day after the reset (1 in the tick
\* that changes the year, never 361), their log entries are dated with the
\* season and year the tick has entered, and farmHealth is the one computed
\* from the waterReserve the events have left.
C20_EventsAfterRollover ==
    last.op = "update" =>
        /\ [i \in 1..Len(last.dispatched) |-> last.dispatched[i].event]
              = SelectSeq(last.pendingBefore, LAMBDA event : event.day = day)
        /\ \A i \in 1..Len(last.dispatched) :
              /\ last.dispatched[i].event.day \in 1..360
              /\ \A j \in 1..Len(last.dispatched[i].logged) :
                    last.dispatched[i].logged[j].date = <<season, year>>
        /\ farmHealth = calculateFarmHealth(grid, waterReserve)

\* the tick into year 2 has left an event for day 361 pending, undispatched
C20_Witness ==
    /\ last.op = "update" /\ year = 2 /\ day = 1 /\ season = "Spring"
    /\ \E i \in 1..Len(last.pendingBefore) :
          /\ last.pendingBefore[i].day = 361
          /\ last.pendingBefore[i] \in Range(last.pendingAfter)
    /\ \A i \in 1..Len(last.dispatched) : last.dispatched[i].event.day = 1
(***************************************************************************)
(* The researched technologies.                                            *)
(***************************************************************************)
\* the technology of the tree with that id
TechOf(techId) ==
    technologies[CHOOSE i \in 1..Len(technologies) :
                    technologies[i].id = techId]

\* C21: after any sequence of researchTechnology calls every id in
\* researchedTechs has all its prerequisites in researchedTechs, no id is
\* there twice, and an id is there exactly when its technology's researched
\* flag is true; a successful call found balance >= tech.cost and took
\* exactly tech.cost from it.
C21_ResearchConsistent ==
    /\ \A i \in 1..Len(researchedTechs) :
          /\ researchedTechs[i] \in TechIds
          /\ TechOf(researchedTechs[i]).prerequisites
                \subseteq Range(researchedTechs)
          /\ \A j \in 1..Len(researchedTechs) :
                researchedTechs[i] = researchedTechs[j] => i = j
    /\ \A i \in 1..Len(technologies) :
          technologies[i].researched
              <=> technologies[i].id \in Range(researchedTechs)
    /\ (last.op = "researchTechnology" /\ last.ok) =>
          /\ last.ledger[1].before >= TechOf(last.arg[1]).cost
          /\ last.ledger[1].after
                = last.ledger[1].before - TechOf(last.arg[1]).cost
          /\ balance = last.ledger[1].after

\* a technology and then the one it is the prerequisite of were researched
C21_Witness ==
    /\ researchedTechs = <<"drip_irrigation", "ai_irrigation">>
    /\ last.op = "researchTechnology" /\ last.ok
    /\ last.arg = <<"ai_irrigation">>
    /\ balance = 300
(***************************************************************************)
(* The two clocks.                                                         *)
(***************************************************************************)
\* C22: after every tick seasonDay = ((day - 1) mod 90) + 1 and season is
\* the ((day - 1) div 90)-th of Spring, Summer, Fall, Winter; a tick enters
\* Spring exactly when it increments the year, and the weather events that
\* tick seeds are scheduled from day 361, not from the reset day 1: they
\* are keyed to a day after 361.
C22_ClocksInLockstep ==
    /\ [](/\ seasonDay = ((day - 1) % 90) + 1
          /\ season = <<"Spring", "Summer", "Fall", "Winter">>
                          [((day - 1) \div 90) + 1])
    /\ [][last'.op = "update" =>
            /\ (season # "Spring" /\ season' = "Spring") <=> year' = year + 1
            /\ year' = year + 1 =>
                  \A i \in (Len(pendingEvents) + 1)..Len(last'.pendingBefore) :
                     last'.pendingBefore[i].type = "rain" =>
                        last'.pendingBefore[i].day > 361]_vars

\* the tick into year 2 has entered Spring and seeded rain for day 362
C22_Witness ==
    /\ last.op = "update" /\ year = 2 /\ day = 1
    /\ season = "Spring" /\ seasonDay = 1
    /\ \E i \in 1..Len(pendingEvents) :
          pendingEvents[i].type = "rain" /\ pendingEvents[i].day = 362
C24_ActionsLeaveClock ==
    /\ [](/\ seasonDay = ((day - 1) % 90) + 1
          /\ season = seasons[((day - 1) \div 90) + 1])
    /\ [][last'.op \in PlayerOps =>
            UNCHANGED <<day, seasonDay, season, year, overheadCostPerCell,
                        waterReserve, marketPrices, pendingEvents>>]_vars

\* a planted cell was irrigated after a tick had left an event pending
C24_Witness ==
    /\ last.op = "irrigateCell" /\ last.ok
    /\ day = 2 /\ pendingEvents # <<>>
    /\ waterReserve = InitialWaterReserve
(***************************************************************************)
(* Test mode.                                                              *)
(***************************************************************************)
\* C25: in test mode with autoTerminate a tick ends with paused true
\* exactly when it ends with year >= testEndYear or balance <= 0, and
\* without testMode or autoTerminate no tick sets paused; once paused no
\* further tick runs, the year never exceeds testEndYear, and every run in
\* test mode with autoTerminate eventually stops.
C25_TestRunStops ==
    /\ [][last'.op = "update" =>
            (paused' <=> /\ testMode /\ autoTerminate
                         /\ (year' >= testEndYear \/ balance' <= 0))]_vars
    /\ [][paused => last'.op # "update"]_vars
    /\ []((testMode /\ autoTerminate) => year <= testEndYear)
    /\ ((testMode /\ autoTerminate) ~> paused)

\* a test run was stopped by the first tick that left no money, before its
\* end year
C25_Witness ==
    /\ testMode /\ autoTerminate /\ paused
    /\ last.op = "update"
    /\ balance = 0 /\ year < testEndYear
    /\ day = 21
====
